---- MODULE Spec2Model ----
(***************************************************************************)
(* Model of build.py, the build script of the ManV standard library.       *)
(*                                                                         *)
(* One behaviour is a bounded series of invocations of main() over one     *)
(* filesystem.  The state is the filesystem under the stdlib directory,    *)
(* the position of the running invocation, its locals, and what it has     *)
(* shown to the outside so far: the lines it printed and the subprocesses  *)
(* it started.  External tools (which, nasm, ar) are inputs: each call     *)
(* draws its outcome with \E.                                              *)
(*                                                                         *)
(* Environment assumptions, stated once:                                   *)
(*  - the stdlib directory exists; "build", when present, is a directory   *)
(*    (so build_dir.mkdir(exist_ok=True) does not raise), and `which` is   *)
(*    itself installed (so the probe of a dependency does not raise);      *)
(*  - the only entries whose unlink() raises are root entries named *.a    *)
(*    (Lockable);                                                          *)
(*  - the only exception other than FileNotFoundError that starting a     *)
(*    tool raises is the OSError "Exec format error";                      *)
(*  - a tool that fails leaves the filesystem as it was; nasm that         *)
(*    succeeds has written its -o file, ar that succeeds its archive;      *)
(*  - tools print nothing on standard output;                              *)
(*  - the rich markup of a line is dropped: a printed line is a pair       *)
(*    <<kind, text>>;                                                      *)
(*  - the lines "Removed <path>" are kept as the set `removed` and not in   *)
(*    `out`, the order of a directory listing being unspecified.           *)
(***************************************************************************)
EXTENDS Integers, Sequences, FiniteSets, TLC

(***************************************************************************)
(* Bounds of the model.                                                    *)
(***************************************************************************)
MaxRuns == 2
MaxMissing == 1
MaxLeftover == 1

(***************************************************************************)
(* Program constants.                                                      *)
(***************************************************************************)
CORE_SOURCES ==
  << "core/core.asm", "core/str.asm", "core/int.asm",
     "core/float.asm", "core/array.asm", "core/bytes.asm" >>

STD_SOURCES ==
  << "io/io.asm", "math/math.asm", "memory/gc.asm",
     "memory/arena.asm", "memory/mem.asm" >>

dependencies == << "nasm", "ar" >>

\* The two build_library calls of main, in program order.
LIBRARIES ==
  << [name |-> "libcore", sources |-> CORE_SOURCES],
     [name |-> "libstd", sources |-> STD_SOURCES] >>

\* The libraries main lists under "Output files:".
SUMMARY_LIBS == << "libcore.a", "libstd.a" >>

(***************************************************************************)
(* Strings and paths.                                                      *)
(***************************************************************************)
Range(s) == {s[i] : i \in DOMAIN s}

\* str.replace(old, new): leftmost, non-overlapping occurrences.
RECURSIVE Replace(_, _, _)
Replace(s, old, new) ==
  IF Len(s) < Len(old) THEN s
  ELSE IF SubSeq(s, 1, Len(old)) = old
       THEN new \o Replace(SubSeq(s, Len(old) + 1, Len(s)), old, new)
       ELSE SubSeq(s, 1, 1) \o Replace(SubSeq(s, 2, Len(s)), old, new)

\* ' '.join(command)
RECURSIVE JoinSpace(_)
JoinSpace(command) ==
  IF Len(command) = 0 THEN ""
  ELSE IF Len(command) = 1 THEN command[1]
       ELSE command[1] \o " " \o JoinSpace(Tail(command))

\* Path.__truediv__
PathJoin(dir, rel) == dir \o "/" \o rel

\* Index of the last "/" of p, 0 when it has none.
RECURSIVE LastSlash(_, _)
LastSlash(p, i) ==
  IF i = 0 THEN 0
  ELSE IF SubSeq(p, i, i) = "/" THEN i ELSE LastSlash(p, i - 1)

\* Path.parent and Path.name
Parent(p) == SubSeq(p, 1, LastSlash(p, Len(p)) - 1)
Name(p) == SubSeq(p, LastSlash(p, Len(p)) + 1, Len(p))

EndsWith(s, suffix) ==
  /\ Len(s) >= Len(suffix)
  /\ SubSeq(s, Len(s) - Len(suffix) + 1, Len(s)) = suffix

\* Whether p lies inside dir, at any depth.
IsUnder(p, dir) == Len(p) > Len(dir) /\ SubSeq(p, 1, Len(dir) + 1) = dir \o "/"

\* dir.rglob("*" + suffix), which descends.
GlobRecursive(fs, dir, suffix) ==
  {p \in fs : IsUnder(p, dir) /\ EndsWith(Name(p), suffix)}

\* dir.glob("*" + suffix): the entries directly inside dir whose name ends
\* with the suffix.  It does not descend.
Glob(fs, dir, suffix) ==
  {p \in fs : Parent(p) = dir /\ EndsWith(Name(p), suffix)}

stdlib_dir == "/stdlib"
build_dir == PathJoin(stdlib_dir, "build")

\* obj_name of build_library, were the object named after the directory of
\* the source only.
ObjNameByDirectory(source) == Parent(source) \o ".o"

\* obj_name = source.replace("/", "_").replace(".asm", ".o")
obj_name(source) == Replace(Replace(source, "/", "_"), ".asm", ".o")

AllSources == Range(CORE_SOURCES) \cup Range(STD_SOURCES)

\* obj_name of every declared source, computed once.
ObjNames == [source \in AllSources |-> obj_name(source)]

source_path(source) == PathJoin(stdlib_dir, source)
obj_path(source) == PathJoin(build_dir, ObjNames[source])
archive_path(name) == PathJoin(stdlib_dir, name \o ".a")


(***************************************************************************)
(* The filesystem the model starts from.                                   *)
(***************************************************************************)
\* Files no run creates: they are present from the start and show what a
\* run leaves alone.  One has a legacy extension, one is an archive and one
\* an object file that are not directly inside the globbed directory.
RootBystanders ==
  { PathJoin(stdlib_dir, "build.py"),
    PathJoin(stdlib_dir, "core/str.mv"),
    PathJoin(stdlib_dir, "core/nested.a") }

BuildBystanders ==
  { PathJoin(build_dir, "notes.txt"),
    PathJoin(build_dir, "sub/deep.o") }

\* Generated-looking files an earlier build may have left behind.
Leftovers ==
  { PathJoin(build_dir, "stray.o"),
    PathJoin(stdlib_dir, "other.a") }

\* The entries whose unlink() raises OSError (a directory named like an
\* archive, or a file the process may not remove).
Lockable == { PathJoin(stdlib_dir, "other.a") }

SourceFiles == {source_path(s) : s \in AllSources}

VARIABLES
  files,         \* paths of the entries that exist under stdlib_dir
  build_exists,  \* whether the directory stdlib_dir/build exists
  unremovable,   \* entries whose unlink() raises
  runs,          \* invocations of main() started so far
  pc,            \* position of the running invocation
  argv,          \* the flags given on the command line
  args,          \* parsed command line: [clean, verbose]
  lib_i,         \* which build_library call of main is running
  src_i,         \* build_library: index of the next source
  objects,       \* build_library: objects compiled so far, in order
  out,           \* lines printed by this invocation
  calls,         \* subprocesses run by this invocation: [command, success]
  exists_checks, \* paths this invocation passed to Path.exists(), in order
  exit_status,   \* process exit status, -1 while running
  exception,     \* the exception that ended the invocation, "" if none
  removed,       \* paths this invocation printed as "Removed"
  files0,        \* the filesystem when this invocation started
  build_exists0, \* whether stdlib_dir/build existed when it started
  reports,       \* how many times this invocation ran its final summary
  cleaned,       \* the filesystem as the latest clean_build call left it,
                 \* while nothing else has changed it since
  written        \* paths written by a tool during this invocation

vars ==
  << files, build_exists, unremovable, runs, pc, argv, args, lib_i, src_i,
     objects, out, calls, exists_checks, exit_status, exception, removed,
     files0, build_exists0, reports, cleaned, written >>

\* What is fixed when an invocation starts.
startvars == << argv, files0, build_exists0 >>

fsvars == << files, build_exists, written, cleaned >>

NotCleaned == [valid |-> FALSE, files |-> {}]
buildvars == << lib_i, src_i, objects >>

Init ==
  /\ \E missing \in SUBSET AllSources, left \in SUBSET Leftovers,
        locked \in SUBSET Lockable, b \in BOOLEAN :
       /\ Cardinality(missing) <= MaxMissing
       /\ Cardinality(left) <= MaxLeftover
       /\ locked \subseteq left
       /\ (\E p \in left : IsUnder(p, build_dir)) => b
       /\ build_exists = b
       /\ unremovable = locked
       /\ files = (SourceFiles \ {source_path(s) : s \in missing})
                    \cup RootBystanders \cup left
                    \cup (IF b THEN BuildBystanders ELSE {})
  /\ runs = 0
  /\ pc = "idle"
  /\ argv = {}
  /\ args = [clean |-> FALSE, verbose |-> FALSE]
  /\ lib_i = 1
  /\ src_i = 1
  /\ objects = << >>
  /\ out = << >>
  /\ calls = << >>
  /\ exists_checks = << >>
  /\ exit_status = -1
  /\ exception = ""
  /\ removed = {}
  /\ files0 = files
  /\ build_exists0 = build_exists
  /\ reports = 0
  /\ cleaned = NotCleaned
  /\ written = {}

(***************************************************************************)
(* Logging.                                                                *)
(***************************************************************************)
log_info(o, message) == Append(o, <<"INFO", message>>)
log_error(o, message) == Append(o, <<"ERROR", message>>)
log_cmd(o, command) == Append(o, <<"CMD", JoinSpace(command)>>)
print(o, text) == Append(o, <<"PRINT", text>>)
print_ok(o, text) == Append(o, <<"OK", text>>)

\* The lines of `o` of one kind.
Lines(o, kind) == {i \in DOMAIN o : o[i][1] = kind}

(***************************************************************************)
(* run_command: the ways a subprocess can end, as (success, error, lines   *)
(* printed by run_command itself).  The tool exits 0, silently or with a   *)
(* warning on standard error (returned, not printed); it exits non-zero,   *)
(* with text on standard error (printed and returned) or without; it is    *)
(* not found; or starting it raises another exception, here the OSError of *)
(* a file the kernel cannot execute.                                       *)
(***************************************************************************)
run_command(command) ==
  { [success |-> TRUE, error |-> "", printed |-> << >>],
    [success |-> TRUE, error |-> "warning", printed |-> << >>],
    [success |-> FALSE, error |-> "stderr", printed |-> << <<"PRINT", "stderr">> >>],
    [success |-> FALSE, error |-> "", printed |-> << >>],
    [success |-> FALSE, error |-> "Command not found: " \o command[1],
     printed |-> << >>],
    [success |-> FALSE,
     error |-> "[Errno 8] Exec format error: '" \o command[1] \o "'",
     printed |-> << >>] }


(***************************************************************************)
(* check_dependencies: probes every dependency with `which`; found[i]      *)
(* tells whether the i-th one resolves.                                    *)
(***************************************************************************)
\* One iteration of the loop over the dependencies.
Probe(i, found, acc) ==
  [out |-> IF found[i]
           THEN print_ok(acc.out, dependencies[i])
           ELSE log_error(acc.out, "Required tool not found: " \o dependencies[i]),
   calls |-> Append(acc.calls, [command |-> <<"which", dependencies[i]>>,
                                success |-> found[i]]),
   all_found |-> IF found[i] THEN acc.all_found ELSE FALSE]

RECURSIVE ProbeFrom(_, _, _)
ProbeFrom(i, found, acc) ==
  IF i > Len(dependencies) THEN acc
  ELSE ProbeFrom(i + 1, found, Probe(i, found, acc))

\* The loop, were it to stop at the first dependency that is missing.
RECURSIVE ProbeUntilMiss(_, _, _)
ProbeUntilMiss(i, found, acc) ==
  IF i > Len(dependencies) \/ ~acc.all_found THEN acc
  ELSE ProbeUntilMiss(i + 1, found, Probe(i, found, acc))

CheckDependenciesStopAtMiss(o, c, found) ==
  ProbeUntilMiss(1, found,
                 [out |-> log_info(o, "Checking dependencies..."),
                  calls |-> c, all_found |-> TRUE])

check_dependencies(o, c, found) ==
  ProbeFrom(1, found,
            [out |-> log_info(o, "Checking dependencies..."),
             calls |-> c, all_found |-> TRUE])

(***************************************************************************)
(* compile_asm and create_archive: the outcomes of one tool call, each     *)
(* with the lines printed and the command line started.                    *)
(***************************************************************************)
ToolOutcomes(o, command, verbose, failure) ==
  { [success |-> r.success,
     command |-> command,
     out |-> LET o1 == (IF verbose THEN log_cmd(o, command) ELSE o) \o r.printed
                 o2 == IF r.success THEN o1 ELSE log_error(o1, failure)
             IN IF ~r.success /\ r.error # "" THEN print(o2, r.error) ELSE o2]
    : r \in run_command(command) }

compile_asm(o, source, output, verbose) ==
  ToolOutcomes(o, <<"nasm", "-f", "elf64", source, "-o", output>>, verbose,
               "Failed to compile " \o source)

create_archive(o, objs, output, verbose) ==
  ToolOutcomes(o, <<"ar", "rcs", output>> \o objs, verbose,
               "Failed to create archive " \o output)

(***************************************************************************)
(* clean_build: the ways the two unlink loops can end.  A loop over the    *)
(* set `matches` removes all of them, or raises at an unremovable entry    *)
(* after having removed any of the others, the listing order being         *)
(* unspecified.                                                            *)
(***************************************************************************)
UnlinkLoop(fs, matches, locked) ==
  IF matches \cap locked = {}
  THEN { [files |-> fs \ matches, removed |-> matches, raised |-> FALSE] }
  ELSE { [files |-> fs \ R, removed |-> R, raised |-> TRUE]
         : R \in SUBSET (matches \ locked) }

CleanBuildKeepsArchives(fs, locked) ==
  UnlinkLoop(fs, Glob(fs, build_dir, ".o"), locked)

clean_build(fs, locked) ==
  UNION { IF o.raised THEN {o}
          ELSE { [files |-> a.files, removed |-> o.removed \cup a.removed,
                  raised |-> a.raised]
                 : a \in UnlinkLoop(o.files, Glob(o.files, stdlib_dir, ".a"),
                                    locked) }
          : o \in UnlinkLoop(fs, Glob(fs, build_dir, ".o"), locked) }


(***************************************************************************)
(* main, one action per stage.                                             *)
(***************************************************************************)
\* The invocation ends: main returned `status`.
Return(status) ==
  /\ pc' = "exit"
  /\ exit_status' = status
  /\ exception' = ""

\* The invocation ends with an uncaught exception: the interpreter prints a
\* traceback and the process exit status is 1.
Raise(e) ==
  /\ pc' = "exit"
  /\ exit_status' = 1
  /\ exception' = e

Continue(next) ==
  /\ pc' = next
  /\ UNCHANGED << exit_status, exception >>

\* The flags a command line may hold: the two main declares, and --check,
\* which it does not declare.
DECLARED_FLAGS == {"--clean", "--verbose"}
FLAGS == DECLARED_FLAGS \cup {"--check"}

\* parser.parse_args() accepts the command line; otherwise it prints the
\* usage and raises SystemExit(2).
ParseOk(flags) == flags \subseteq DECLARED_FLAGS

\* A new invocation: the command line is parsed.
main_start ==
  /\ pc \in {"idle", "exit"}
  /\ runs < MaxRuns
  /\ runs' = runs + 1
  /\ \E flags \in SUBSET FLAGS :
       /\ argv' = flags
       /\ IF ParseOk(flags)
          THEN /\ args' = [clean |-> "--clean" \in flags,
                           verbose |-> "--verbose" \in flags]
               /\ pc' = "check_dependencies"
               /\ exit_status' = -1
               /\ exception' = ""
          ELSE /\ args' = [clean |-> FALSE, verbose |-> FALSE]
               /\ pc' = "exit"
               /\ exit_status' = 2
               /\ exception' = "SystemExit"
  /\ lib_i' = 1
  /\ src_i' = 1
  /\ objects' = << >>
  /\ out' = << >>
  /\ calls' = << >>
  /\ exists_checks' = << >>
  /\ removed' = {}
  /\ files0' = files
  /\ build_exists0' = build_exists
  /\ reports' = 0
  /\ written' = {}
  /\ UNCHANGED << files, build_exists, unremovable, cleaned >>

\* `if not check_dependencies(): return 1`, were the result ignored.
AfterDependencyCheckIgnored(all_found) == Continue("mkdir")

\* if not check_dependencies(): return 1
AfterDependencyCheck(all_found) ==
  IF all_found THEN Continue("mkdir") ELSE Return(1)

main_check_dependencies ==
  /\ pc = "check_dependencies"
  /\ \E found \in [DOMAIN dependencies -> BOOLEAN] :
       LET r == check_dependencies(out, calls, found) IN
         /\ out' = r.out
         /\ calls' = r.calls
         /\ AfterDependencyCheck(r.all_found)
  /\ UNCHANGED << fsvars, buildvars, unremovable, runs, reports, args, removed, startvars,
                  exists_checks >>

\* `if args.clean:`, were the clean step taken whatever the flag.
AfterMkdirAlwaysClean(clean) == "clean"

\* if args.clean: clean_build(...), else on to the build
AfterMkdir(clean) == IF clean THEN "clean" ELSE "build"

\* build_dir.mkdir(exist_ok=True)
main_mkdir ==
  /\ pc = "mkdir"
  /\ build_exists' = TRUE
  /\ cleaned' = IF build_exists THEN cleaned ELSE NotCleaned
  /\ Continue(AfterMkdir(args.clean))
  /\ UNCHANGED << files, written, buildvars, unremovable, runs, reports, args, out,
                  calls, removed, startvars,
                  exists_checks >>

\* if args.clean: clean_build(stdlib_dir, build_dir)
main_clean ==
  /\ pc = "clean"
  /\ \E r \in clean_build(files, unremovable) :
       /\ files' = r.files
       /\ cleaned' = [valid |-> TRUE, files |-> r.files]
       /\ removed' = r.removed
       /\ IF r.raised THEN Raise("OSError") ELSE Continue("build")
  /\ out' = log_info(out, "Cleaning build artifacts...")
  /\ UNCHANGED << build_exists, written, buildvars, unremovable, runs, reports, args,
                  calls, startvars,
                  exists_checks >>

\* log_info(f"Building in {stdlib_dir}"), then the first build_library call
main_build ==
  /\ pc = "build"
  /\ out' = log_info(out, "Building in " \o stdlib_dir)
  /\ lib_i' = 1
  /\ Continue("build_library")
  /\ UNCHANGED << fsvars, src_i, objects, unremovable, runs, reports, args, calls,
                  removed, startvars,
                  exists_checks >>

\* build_library, entry: the banner and the empty object list
build_library_enter ==
  /\ pc = "build_library"
  /\ out' = log_info(out, "Building " \o LIBRARIES[lib_i].name \o "...")
  /\ objects' = << >>
  /\ src_i' = 1
  /\ Continue("source")
  /\ UNCHANGED << fsvars, lib_i, unremovable, runs, reports, args, calls, removed,
                  startvars,
                  exists_checks >>

\* `if not source_path.exists()`, were the check left out.
SourceMissingIgnored(fs, source) == FALSE

\* if not source_path.exists()
SourceMissing(fs, source) == source_path(source) \notin fs

\* `if not compile_asm(...)`, were the result of the compiler ignored.
CompileResultIgnored(r) == FALSE

\* if not compile_asm(source_path, obj_path, verbose)
CompileFailed(r) == ~r.success

\* The files after a compiler run, were a failed run to remove the objects
\* made so far for the collection.
FilesAfterCompileRollback(fs, objs, obj, r) ==
  IF r.success THEN fs \cup {obj} ELSE fs \ Range(objs)

\* The files after a compiler run: a successful run leaves its object; a
\* failed one makes build_library return False and nothing is removed.
FilesAfterCompile(fs, objs, obj, r) ==
  IF r.success THEN fs \cup {obj} ELSE fs

\* objects.append(obj_path), were the object put first.
PrependObject(objs, p) == << p >> \o objs

\* objects.append(obj_path)
AppendObject(objs, p) == Append(objs, p)

\* `return 1` of main after a failed build_library, were it `return 0`.
FailLibraryExitZero ==
  /\ Return(0)
  /\ UNCHANGED buildvars

\* `return 1` of main after a failed build_library, were main to go on to
\* the next library.
FailLibraryGoOn ==
  IF lib_i < Len(LIBRARIES)
  THEN /\ lib_i' = lib_i + 1
       /\ Continue("build_library")
       /\ UNCHANGED << src_i, objects >>
  ELSE /\ Return(1)
       /\ UNCHANGED buildvars

\* build_library returns False and main returns 1.
FailLibrary ==
  /\ Return(1)
  /\ UNCHANGED buildvars

\* build_library, one iteration of the loop over the sources
build_library_source ==
  /\ pc = "source"
  /\ src_i <= Len(LIBRARIES[lib_i].sources)
  /\ LET source == LIBRARIES[lib_i].sources[src_i] IN
       /\ exists_checks' = Append(exists_checks, source_path(source))
       /\ IF SourceMissing(files, source)
          THEN /\ out' = log_error(out, "Source file not found: "
                                          \o source_path(source))
               /\ FailLibrary
               /\ UNCHANGED << fsvars, calls >>
          ELSE \E r \in compile_asm(
                          IF args.verbose
                          THEN log_info(out, "  Compiling " \o source) ELSE out,
                          source_path(source), obj_path(source), args.verbose) :
                 /\ out' = r.out
                 /\ calls' = Append(calls, [command |-> r.command,
                                            success |-> r.success])
                 /\ files' = FilesAfterCompile(files, objects,
                                                obj_path(source), r)
                 /\ IF r.success
                    THEN /\ written' = written \cup {obj_path(source)}
                         /\ cleaned' = NotCleaned
                    ELSE UNCHANGED << written, cleaned >>
                 /\ UNCHANGED build_exists
                 /\ IF CompileFailed(r)
                    THEN FailLibrary
                    ELSE /\ objects' = AppendObject(objects, obj_path(source))
                         /\ src_i' = src_i + 1
                         /\ Continue("source")
                         /\ UNCHANGED lib_i
  /\ UNCHANGED << unremovable, runs, reports, args, removed, startvars >>

\* main after a build_library that returned True, were it to print the
\* summary at once.
AfterLibraryStraightToSummary(i) == "summary"

\* main after a build_library that returned True: the next library, or the
\* summary after the last one.
AfterLibrary(i) == IF i < Len(LIBRARIES) THEN "build_library" ELSE "summary"

\* build_library, after the loop: the archive; then main goes on
build_library_archive ==
  /\ pc = "source"
  /\ src_i > Len(LIBRARIES[lib_i].sources)
  /\ LET name == LIBRARIES[lib_i].name IN
       \E r \in create_archive(
                  IF args.verbose
                  THEN log_info(out, "  Creating archive " \o name \o ".a") ELSE out,
                  objects, archive_path(name), args.verbose) :
         /\ calls' = Append(calls, [command |-> r.command, success |-> r.success])
         /\ IF r.success
            THEN /\ out' = print_ok(r.out, "Created " \o archive_path(name))
                 /\ files' = files \cup {archive_path(name)}
                 /\ written' = written \cup {archive_path(name)}
                 /\ cleaned' = NotCleaned
                 /\ lib_i' = IF AfterLibrary(lib_i) = "build_library"
                             THEN lib_i + 1 ELSE lib_i
                 /\ Continue(AfterLibrary(lib_i))
                 /\ UNCHANGED << build_exists, src_i, objects >>
            ELSE /\ out' = r.out
                 /\ FailLibrary
                 /\ UNCHANGED fsvars
  /\ UNCHANGED << unremovable, runs, reports, args, exists_checks, removed, startvars >>

\* The lines of the summary for the libraries that exist.
RECURSIVE SummaryFrom(_, _, _)
SummaryFrom(i, fs, o) ==
  IF i > Len(SUMMARY_LIBS) THEN o
  ELSE SummaryFrom(i + 1, fs,
         IF PathJoin(stdlib_dir, SUMMARY_LIBS[i]) \in fs
         THEN print_ok(o, PathJoin(stdlib_dir, SUMMARY_LIBS[i]))
         ELSE o)

SummaryChecks == [i \in DOMAIN SUMMARY_LIBS |-> PathJoin(stdlib_dir, SUMMARY_LIBS[i])]

\* log_info("Build complete!"); print(); print("Output files:")
SummaryHeader(o) == print(print(log_info(o, "Build complete!"), ""), "Output files:")

\* log_info("Build complete!"), the summary, return 0
main_summary ==
  /\ pc = "summary"
  /\ out' = SummaryFrom(1, files, SummaryHeader(out))
  /\ exists_checks' = exists_checks \o SummaryChecks
  /\ reports' = reports + 1
  /\ Return(0)
  /\ UNCHANGED << fsvars, buildvars, unremovable, runs, args, calls, removed,
                  startvars >>

Next ==
  \/ main_start
  \/ main_check_dependencies
  \/ main_mkdir
  \/ main_clean
  \/ main_build
  \/ build_library_enter
  \/ build_library_source
  \/ build_library_archive
  \/ main_summary

Spec == Init /\ [][Next]_vars

\* The same program under the scheduling of a sequential process: a step
\* that can be taken is taken.
FairSpec == Spec /\ WF_vars(Next)

TypeOK ==
  /\ files \subseteq STRING
  /\ build_exists \in BOOLEAN
  /\ runs \in 0..MaxRuns
  /\ pc \in {"idle", "check_dependencies", "mkdir", "clean", "build",
             "build_library", "source", "summary", "exit"}
  /\ exit_status \in {-1, 0, 1, 2}
  /\ reports \in {0, 1}


(***************************************************************************)
(* What an invocation has done so far, read from its traces.               *)
(***************************************************************************)
LibraryNames == {LIBRARIES[L].name : L \in DOMAIN LIBRARIES}

\* The source paths and the archive path of every library, computed once.
SourcePathSets ==
  [name \in LibraryNames |->
     UNION { {source_path(s) : s \in Range(LIBRARIES[L].sources)}
             : L \in {M \in DOMAIN LIBRARIES : LIBRARIES[M].name = name} }]

ArchivePaths == [name \in LibraryNames |-> archive_path(name)]

SourcePaths(lib) == SourcePathSets[lib.name]

\* Positions in `calls` of the compiler runs on a source path.
NasmCalls(path) ==
  {i \in DOMAIN calls : calls[i].command[1] = "nasm" /\ calls[i].command[4] = path}

\* Positions in `calls` of the archiver runs for a library.
ArCalls(name) ==
  {i \in DOMAIN calls :
     calls[i].command[1] = "ar" /\ calls[i].command[3] = ArchivePaths[name]}

\* Positions in `calls` of every tool run made for a library.
LibraryCalls(lib) ==
  ArCalls(lib.name) \cup UNION {NasmCalls(p) : p \in SourcePaths(lib)}

CompileFailedFor(lib) ==
  \E p \in SourcePaths(lib) : \E i \in NasmCalls(p) : ~calls[i].success

SourceMissingFor(lib) == \E p \in SourcePaths(lib) : p \notin files

AllCompiledFor(lib) ==
  \A p \in SourcePaths(lib) : \E i \in NasmCalls(p) : calls[i].success

ArchivedOk(lib) == \E k \in ArCalls(lib.name) : calls[k].success

DependencyMissing ==
  \E i \in DOMAIN calls : calls[i].command[1] = "which" /\ ~calls[i].success

ErrorLines(text) == {j \in DOMAIN out : out[j] = <<"ERROR", text>>}

(***************************************************************************)
(* C1.  In build_library, whenever a source of a collection is missing or  *)
(* a compiler run for one of its sources has failed, the archiver has not  *)
(* been run for that collection.                                           *)
(***************************************************************************)
C1_NoArchiveAfterSourceFailure ==
  \A L \in DOMAIN LIBRARIES :
    (SourceMissingFor(LIBRARIES[L]) \/ CompileFailedFor(LIBRARIES[L]))
      => ArCalls(LIBRARIES[L].name) = {}

\* libstd fails in the compiler after two of its sources compiled, libcore
\* having been archived.
C1_Witness ==
  /\ pc = "exit"
  /\ ArchivedOk(LIBRARIES[1])
  /\ \E i \in NasmCalls(source_path(STD_SOURCES[3])) : ~calls[i].success
  /\ ArCalls("libstd") = {}

(***************************************************************************)
(* C2.  The archiver runs at most once for a collection; the calls right   *)
(* before it are the successful compiler runs of the collection's sources  *)
(* in declared order, and its arguments are the archive path followed by   *)
(* the object paths of those sources in that order; once every source of   *)
(* the collection has compiled and build_library has moved on, it has run  *)
(* exactly once.                                                           *)
(***************************************************************************)
C2_ArchiveOnceInOrder ==
  \A L \in DOMAIN LIBRARIES :
    LET lib == LIBRARIES[L]
        n == Len(lib.sources)
    IN /\ Cardinality(ArCalls(lib.name)) <= 1
       /\ \A k \in ArCalls(lib.name) :
            /\ calls[k].command =
                 <<"ar", "rcs", archive_path(lib.name)>>
                   \o [i \in 1..n |-> obj_path(lib.sources[i])]
            /\ k > n
            /\ \A i \in 1..n :
                 calls[k - n + i - 1] =
                   [command |-> <<"nasm", "-f", "elf64",
                                  source_path(lib.sources[i]), "-o",
                                  obj_path(lib.sources[i])>>,
                    success |-> TRUE]
       /\ (AllCompiledFor(lib) /\ ~(pc = "source" /\ lib_i = L))
            => Cardinality(ArCalls(lib.name)) = 1

\* Both collections have been archived.
C2_Witness ==
  /\ pc = "summary"
  /\ ArchivedOk(LIBRARIES[1])
  /\ ArchivedOk(LIBRARIES[2])

(***************************************************************************)
(* C3.  When a required tool does not resolve, check_dependencies has      *)
(* probed every required tool, printed one error line for each missing     *)
(* one and none for the others, and main has exited with status 1 having   *)
(* run no other subprocess.                                                *)
(***************************************************************************)
C3_DependencyGate ==
  DependencyMissing =>
    /\ Len(calls) = Len(dependencies)
    /\ \A i \in DOMAIN dependencies :
         /\ calls[i].command = <<"which", dependencies[i]>>
         /\ Cardinality(ErrorLines("Required tool not found: " \o dependencies[i]))
              = IF calls[i].success THEN 0 ELSE 1
    /\ Cardinality(Lines(out, "ERROR"))
         = Cardinality({i \in DOMAIN calls : ~calls[i].success})
    /\ pc = "exit"
    /\ exit_status = 1

\* The first tool is missing and the second was still probed and found.
C3_Witness ==
  /\ pc = "exit"
  /\ Len(calls) = 2
  /\ ~calls[1].success
  /\ calls[2] = [command |-> <<"which", "ar">>, success |-> TRUE]

(***************************************************************************)
(* C4.  libcore is processed before libstd: every tool run for libcore     *)
(* precedes every tool run for libstd, and nothing is done for libstd (no  *)
(* existence check of a source, no compiler run, no archiver run) unless   *)
(* the archiver has succeeded for libcore in this invocation.              *)
(***************************************************************************)
StdActivity ==
  \/ \E i \in DOMAIN exists_checks : exists_checks[i] \in SourcePaths(LIBRARIES[2])
  \/ LibraryCalls(LIBRARIES[2]) # {}

C4_CoreBeforeStd ==
  /\ StdActivity => ArchivedOk(LIBRARIES[1])
  /\ \A i \in LibraryCalls(LIBRARIES[1]), j \in LibraryCalls(LIBRARIES[2]) : i < j

\* libcore fails in the archiver; the invocation ends with nothing done for
\* libstd.
C4_Witness ==
  /\ pc = "exit"
  /\ \E k \in ArCalls("libcore") : ~calls[k].success
  /\ ~StdActivity
  /\ exit_status = 1

(***************************************************************************)
(* C5.  An invocation whose command line was accepted and that has ended   *)
(* has status 0 or 1, and it has status 0 exactly when every required tool *)
(* resolved and, for both collections, every source was present, every     *)
(* compiler run succeeded and the archiver succeeded.                      *)
(***************************************************************************)
FullSuccess ==
  /\ \A d \in Range(dependencies) :
       \E i \in DOMAIN calls :
         calls[i] = [command |-> <<"which", d>>, success |-> TRUE]
  /\ \A i \in DOMAIN calls : calls[i].success
  /\ \A L \in DOMAIN LIBRARIES :
       /\ ~SourceMissingFor(LIBRARIES[L])
       /\ AllCompiledFor(LIBRARIES[L])
       /\ ArchivedOk(LIBRARIES[L])

C5_ExitStatus ==
  (pc = "exit" /\ ParseOk(argv)) =>
    /\ exit_status \in {0, 1}
    /\ exit_status = 0 <=> FullSuccess

\* A fully successful invocation that was asked to clean first.
C5_Witness ==
  /\ pc = "exit"
  /\ exit_status = 0
  /\ args.clean


(***************************************************************************)
(* C6.  Cleanup is idempotent: a clean_build call succeeds, and when the   *)
(* filesystem is still as the previous clean_build call left it, the call  *)
(* leaves it as it is.                                                     *)
(***************************************************************************)
C6_CleanIdempotent ==
  [][pc = "clean" =>
       /\ exception' = ""
       /\ cleaned.valid => files' = cleaned.files]_vars

(***************************************************************************)
(* C7.  A removal that fails during the Clean step does not stop the       *)
(* invocation: it goes on to the Build step, and its exit status is that   *)
(* of the build.                                                           *)
(***************************************************************************)
BuildStarted == \E j \in DOMAIN out : out[j] = <<"INFO", "Building in " \o stdlib_dir>>

C7_CleanFailureNonFatal ==
  (pc = "exit" /\ exception = "OSError") =>
    /\ BuildStarted
    /\ exit_status = 0 <=> FullSuccess

(***************************************************************************)
(* C8.  The only files an invocation deletes are, when --clean was given,  *)
(* files directly inside the build directory named *.o and files directly  *)
(* inside the stdlib directory named *.a; every source module, every file  *)
(* with another extension and every file in a subdirectory stays.          *)
(***************************************************************************)
C8_CleanFrame ==
  /\ \A p \in files0 \ files :
       /\ args.clean
       /\ \/ Parent(p) = build_dir /\ EndsWith(p, ".o")
          \/ Parent(p) = stdlib_dir /\ EndsWith(p, ".a")
  /\ \A p \in (SourceFiles \cup RootBystanders \cup BuildBystanders) \cap files0 :
       p \in files

\* A clean that has removed an object and an archive of an earlier build,
\* with the bystanders of the build directory present.
C8_Witness ==
  /\ pc = "build"
  /\ args.clean
  /\ obj_path(CORE_SOURCES[1]) \in removed
  /\ archive_path("libcore") \in removed
  /\ BuildBystanders \subseteq files

(***************************************************************************)
(* C9.  Every invocation ends, and one that has ended by a return of main, *)
(* on the success path or on a failure path (dependency failure, missing   *)
(* source, compiler failure, archiver failure), has run its final summary  *)
(* step exactly once.                                                      *)
(***************************************************************************)
ReportLines == {j \in DOMAIN out : out[j] = <<"INFO", "Build complete!">>}

Returned == pc = "exit" /\ ParseOk(argv) /\ exception = ""

C9_ReportAlwaysOnce ==
  /\ [](Returned => reports = 1)
  /\ (pc \notin {"idle", "exit"}) ~> (pc = "exit")

(***************************************************************************)
(* What build.py does on this point: every invocation ends; the summary    *)
(* step runs once in an invocation that ends with status 0 and not at all  *)
(* in any other, which has printed an error line when it ended by a return *)
(* of main.                                                                *)
(***************************************************************************)
SummaryOnSuccessOnly ==
  /\ [](reports = IF pc = "exit" /\ exit_status = 0 THEN 1 ELSE 0)
  /\ [](Cardinality(ReportLines) = reports)
  /\ []((Returned /\ exit_status = 1) => Lines(out, "ERROR") # {})
  /\ (pc \notin {"idle", "exit"}) ~> (pc = "exit")

(***************************************************************************)
(* C10.  The listing "Output files:" is printed only by an invocation that *)
(* has ended with status 0 and after the archiver has succeeded for both   *)
(* collections; an invocation that ends with status 0 has printed it, once.*)
(***************************************************************************)
ListingLines == {j \in DOMAIN out : out[j] = <<"PRINT", "Output files:">>}

C10_ListingOnSuccessOnly ==
  /\ ListingLines # {} =>
       /\ pc = "exit"
       /\ exit_status = 0
       /\ \A L \in DOMAIN LIBRARIES : ArchivedOk(LIBRARIES[L])
  /\ (pc = "exit" /\ exit_status = 0) => Cardinality(ListingLines) = 1

\* A successful invocation has printed the listing and a line for each
\* archive.
C10_Witness ==
  /\ ListingLines # {}
  /\ \A i \in DOMAIN SUMMARY_LIBS :
       \E j \in DOMAIN out : out[j] = <<"OK", PathJoin(stdlib_dir, SUMMARY_LIBS[i])>>

(***************************************************************************)
(* C11.  An invocation given --check that has ended has status 0 when      *)
(* every declared source path exists, and status 1 when one is absent; it  *)
(* has then checked every declared path and reported exactly the absent    *)
(* ones.                                                                   *)
(***************************************************************************)
DeclaredPaths == {source_path(source) : source \in AllSources}

AbsentPaths == DeclaredPaths \ files

ReportedMissing ==
  {p \in DeclaredPaths : ErrorLines("Source file not found: " \o p) # {}}

C11_ValidationMode ==
  (pc = "exit" /\ "--check" \in argv) =>
    /\ exit_status = (IF AbsentPaths = {} THEN 0 ELSE 1)
    /\ ReportedMissing = AbsentPaths

(***************************************************************************)
(* C12.  The stages of an invocation come in the order dependency check,   *)
(* clean (optional), build, report, exit.  Each stage is entered at most   *)
(* once; the clean step is taken only when --clean was given, only after   *)
(* both tools resolved, and before any compiler or archiver call; every    *)
(* compiler or archiver call comes after the dependency probes, which all  *)
(* succeeded; with --clean no compiler call is made before the clean step. *)
(***************************************************************************)
StageLines(text) == {j \in DOMAIN out : out[j] = <<"INFO", text>>}

DependencyCheckLines == StageLines("Checking dependencies...")

CleanLines == StageLines("Cleaning build artifacts...")

BuildLines == StageLines("Building in " \o stdlib_dir)

ToolCalls == {i \in DOMAIN calls : calls[i].command[1] \in {"nasm", "ar"}}

DependenciesResolved ==
  /\ Len(calls) >= Len(dependencies)
  /\ \A i \in DOMAIN dependencies :
       calls[i] = [command |-> <<"which", dependencies[i]>>, success |-> TRUE]

Before(A, B) == \A a \in A, b \in B : a < b

C12_Stages ==
  /\ Cardinality(DependencyCheckLines) <= 1
  /\ Cardinality(CleanLines) <= 1
  /\ Cardinality(BuildLines) <= 1
  /\ Cardinality(ReportLines) <= 1
  /\ Before(DependencyCheckLines, CleanLines \cup BuildLines \cup ReportLines)
  /\ Before(CleanLines, BuildLines \cup ReportLines)
  /\ Before(BuildLines, ReportLines)
  /\ (CleanLines # {} \/ pc = "clean") => (args.clean /\ DependenciesResolved)
  /\ pc = "clean" => (CleanLines = {} /\ ToolCalls = {})
  /\ ToolCalls # {} =>
       /\ DependenciesResolved
       /\ DependencyCheckLines # {}
       /\ BuildLines # {}
       /\ args.clean => CleanLines # {}
       /\ \A i \in ToolCalls : i > Len(dependencies)
  /\ ReportLines # {} => (BuildLines # {} /\ pc = "exit")

\* A step that takes the clean step starts before any tool call.
C12_CleanStep ==
  (CleanLines' \ CleanLines) # {} => (ToolCalls = {} /\ pc = "clean")

C12_StageOrder == [](C12_Stages) /\ [][C12_CleanStep]_vars

\* A cleaning invocation that went through every stage.
C12_Witness ==
  /\ pc = "exit"
  /\ exit_status = 0
  /\ CleanLines # {}
  /\ BuildLines # {}
  /\ ReportLines # {}
  /\ ToolCalls # {}

(***************************************************************************)
(* C13.  The compiler runs made for a collection are on a prefix of its    *)
(* sources, one run each, in declared order, and only the last of them may *)
(* have failed.  When an invocation that entered the collection has ended  *)
(* and the k-th source is the first one missing or failing, the compiler   *)
(* has run once on each of the sources 1..k-1, once on source k exactly    *)
(* when it was present, on no later source, and an error line names the    *)
(* k-th file.                                                              *)
(***************************************************************************)
\* The source paths and the banner of every collection, computed once.
SourcePathTable ==
  [L \in DOMAIN LIBRARIES |->
     [k \in DOMAIN LIBRARIES[L].sources |-> source_path(LIBRARIES[L].sources[k])]]

EnterLine ==
  [L \in DOMAIN LIBRARIES |-> <<"INFO", "Building " \o LIBRARIES[L].name \o "...">>]

SourcePathAt(L, k) == SourcePathTable[L][k]

Entered(L) == \E j \in DOMAIN out : out[j] = EnterLine[L]

Bad(L, k) ==
  \/ SourcePathAt(L, k) \notin files
  \/ \E i \in NasmCalls(SourcePathAt(L, k)) : ~calls[i].success

FirstBad(L, k) == Bad(L, k) /\ \A j \in 1..(k - 1) : ~Bad(L, j)

C13_PrefixInOrder(L) ==
  \A k \in DOMAIN LIBRARIES[L].sources :
    LET runs_k == NasmCalls(SourcePathAt(L, k)) IN
      /\ Cardinality(runs_k) <= 1
      /\ \A i \in runs_k :
           \A j \in 1..(k - 1) :
             \E h \in 1..(i - 1) :
               /\ calls[h].command[1] = "nasm"
               /\ calls[h].command[4] = SourcePathAt(L, j)
               /\ calls[h].success

C13_FailFast ==
  \A L \in DOMAIN LIBRARIES :
    /\ C13_PrefixInOrder(L)
    /\ \A k \in DOMAIN LIBRARIES[L].sources :
         (pc = "exit" /\ Entered(L) /\ FirstBad(L, k)) =>
           LET p == SourcePathAt(L, k) IN
             /\ \A j \in 1..(k - 1) :
                  Cardinality(NasmCalls(SourcePathAt(L, j))) = 1
             /\ Cardinality(NasmCalls(p)) = (IF p \in files THEN 1 ELSE 0)
             /\ \A j \in (k + 1)..Len(LIBRARIES[L].sources) :
                  NasmCalls(SourcePathAt(L, j)) = {}
             /\ IF p \in files
                THEN ErrorLines("Failed to compile " \o p) # {}
                ELSE ErrorLines("Source file not found: " \o p) # {}
             /\ exit_status = 1

\* The third source of the second collection is missing: two compiler runs
\* were made for the collection.
C13_Witness ==
  /\ pc = "exit"
  /\ Entered(2)
  /\ FirstBad(2, 3)
  /\ SourcePathAt(2, 3) \notin files
  /\ NasmCalls(SourcePathAt(2, 2)) # {}

(***************************************************************************)
(* C14.  After a compiler run has failed, every file an earlier successful *)
(* compiler or archiver run of the invocation produced is still there, and *)
(* no other run of the invocation has written to it.                       *)
(***************************************************************************)
Output(i) ==
  IF calls[i].command[1] = "nasm" THEN calls[i].command[6]
  ELSE calls[i].command[3]

C14_NoRollback ==
  (pc = "exit" /\ \E L \in DOMAIN LIBRARIES : CompileFailedFor(LIBRARIES[L])) =>
    \A i \in ToolCalls :
      calls[i].success =>
        /\ Output(i) \in files
        /\ Output(i) \in written
        /\ \A j \in ToolCalls : Output(j) = Output(i) => j = i

\* The second collection failed at its second source: the object of its
\* first source and the archive of the first collection are there.
C14_Witness ==
  /\ pc = "exit"
  /\ \E i \in NasmCalls(SourcePathAt(2, 2)) : ~calls[i].success
  /\ obj_path(LIBRARIES[2].sources[1]) \in files
  /\ archive_path(LIBRARIES[1].name) \in files
  /\ ArchivedOk(LIBRARIES[1])

(***************************************************************************)
(* C15.  An invocation without flags in which every libcore source was     *)
(* compiled and libcore archived, while the first libstd source io/io.asm  *)
(* is missing, ends with status 1, with the libcore archive written by     *)
(* this invocation, no compiler and no archiver run for libstd, and one    *)
(* error line naming the missing file.                                     *)
(***************************************************************************)
ScenarioB ==
  /\ pc = "exit"
  /\ argv = {}
  /\ AllCompiledFor(LIBRARIES[1])
  /\ ArchivedOk(LIBRARIES[1])
  /\ LIBRARIES[2].sources[1] = "io/io.asm"
  /\ source_path("io/io.asm") \notin files

C15_ScenarioB ==
  ScenarioB =>
    /\ archive_path("libcore") \in files
    /\ archive_path("libcore") \in written
    /\ LibraryCalls(LIBRARIES[2]) = {}
    /\ Cardinality(ErrorLines("Source file not found: "
                                \o source_path("io/io.asm"))) = 1
    /\ Cardinality({j \in DOMAIN out : out[j][1] = "ERROR"}) = 1
    /\ exit_status = 1

\* Scenario B has been run, on a directory that held no libcore archive
\* before.
C15_Witness ==
  /\ ScenarioB
  /\ archive_path("libcore") \notin files0
  /\ exit_status = 1

(***************************************************************************)
(* C16.  Once the clean step has completed, stdlib_dir/build holds no *.o  *)
(* entry and stdlib_dir no *.a entry, whatever was there before; and an    *)
(* invocation with --clean on a directory with all sources, with both      *)
(* tools resolved and every tool run succeeding, ends with status 0 and    *)
(* has removed every such entry that was there when it started, be it the  *)
(* first such invocation or a later one.                                   *)
(***************************************************************************)
Artifacts(fs) == Glob(fs, build_dir, ".o") \cup Glob(fs, stdlib_dir, ".a")

CleanEnvironmentOk ==
  /\ args.clean
  /\ DependenciesResolved
  /\ \A i \in DOMAIN calls : calls[i].success
  /\ \A L \in DOMAIN LIBRARIES : ~SourceMissingFor(LIBRARIES[L])

C16_CleanRemovesAndSucceeds ==
  /\ (pc = "build" /\ args.clean) => Artifacts(files) = {}
  /\ (pc = "exit" /\ CleanEnvironmentOk) =>
       /\ exit_status = 0
       /\ Artifacts(files0) \subseteq removed
       /\ Artifacts(files0) \cap files \subseteq written

(***************************************************************************)
(* C17.  Two distinct sources of one collection never have the same object *)
(* path, and every archiver run is handed as many objects as its           *)
(* collection has sources, all distinct.                                   *)
(***************************************************************************)
\* The archive path of every collection, computed once.
LibraryArchiveTable ==
  [L \in DOMAIN LIBRARIES |-> archive_path(LIBRARIES[L].name)]

ArObjects(i) == SubSeq(calls[i].command, 4, Len(calls[i].command))

\* The object paths of every collection, in source order, computed once.
ObjectPathTable ==
  [L \in DOMAIN LIBRARIES |->
     [k \in DOMAIN LIBRARIES[L].sources |-> obj_path(LIBRARIES[L].sources[k])]]

\* Two distinct sources of one collection have distinct object paths.
ObjectPathsDistinct ==
  \A L \in DOMAIN LIBRARIES :
    \A a, b \in DOMAIN ObjectPathTable[L] :
      a # b => ObjectPathTable[L][a] # ObjectPathTable[L][b]

C17_ObjectPathsDistinct ==
  /\ ObjectPathsDistinct
  /\ \A i \in DOMAIN calls :
       calls[i].command[1] = "ar" =>
         \A L \in DOMAIN LIBRARIES :
           calls[i].command[3] = LibraryArchiveTable[L] =>
             /\ Len(ArObjects(i)) = Len(LIBRARIES[L].sources)
             /\ Cardinality(Range(ArObjects(i))) = Len(LIBRARIES[L].sources)
             /\ ArObjects(i) = ObjectPathTable[L]

\* The archiver has been run for both collections.
C17_Witness ==
  /\ ArCalls("libcore") # {}
  /\ ArCalls("libstd") # {}
  /\ obj_path("memory/gc.asm") = "/stdlib/build/memory_gc.o"

(***************************************************************************)
(* C18.  An invocation whose dependency check failed has changed nothing:  *)
(* the files are those it started with, stdlib_dir/build exists only if it *)
(* did before, and nothing was removed or written, with or without         *)
(* --clean; it has made no call but the dependency probes.                 *)
(***************************************************************************)
C18_DependencyFailureTouchesNothing ==
  DependencyMissing =>
    /\ files = files0
    /\ build_exists = build_exists0
    /\ removed = {}
    /\ written = {}
    /\ CleanLines = {}
    /\ ToolCalls = {}

\* A tool is missing, --clean was given, there were artifacts to remove and
\* no build directory.
C18_Witness ==
  /\ pc = "exit"
  /\ DependencyMissing
  /\ args.clean
  /\ Artifacts(files) # {}
  /\ ~build_exists

(***************************************************************************)
(* C19.  When an invocation has ended with status 1 because a collection   *)
(* met a missing source or a failed compiler run: if --clean was given, no *)
(* archive of that collection or of a later one exists; if it was not, an  *)
(* archive of such a collection that was there at the start is still there *)
(* and was not written by this invocation.  With --clean, once the build   *)
(* has started, every library archive present was written by this          *)
(* invocation.                                                             *)
(***************************************************************************)
FailedAt(L) ==
  /\ pc = "exit"
  /\ exit_status = 1
  /\ Entered(L)
  /\ \E k \in DOMAIN LIBRARIES[L].sources : FirstBad(L, k)

LibraryArchive(L) == archive_path(LIBRARIES[L].name)

C19_ArchiveFreshness ==
  /\ \A L \in DOMAIN LIBRARIES :
       FailedAt(L) =>
         \A M \in L..Len(LIBRARIES) :
           IF args.clean
           THEN LibraryArchive(M) \notin files
           ELSE LibraryArchive(M) \in files0 =>
                  /\ LibraryArchive(M) \in files
                  /\ LibraryArchive(M) \notin written
  /\ (args.clean /\ BuildLines # {}) =>
       \A L \in DOMAIN LIBRARIES :
         LibraryArchive(L) \in files => LibraryArchive(L) \in written

\* A second invocation without --clean failed in the first collection and
\* left the archives of the first one in place.
C19_Witness ==
  /\ FailedAt(1)
  /\ ~args.clean
  /\ \A L \in DOMAIN LIBRARIES :
       /\ LibraryArchive(L) \in files0
       /\ LibraryArchive(L) \in files
       /\ LibraryArchive(L) \notin written

\* A second invocation with --clean failed in the second collection: the
\* archive of the first one is fresh, the stale one of the second is gone.
C19_CleanCase ==
  /\ FailedAt(2)
  /\ args.clean
  /\ LibraryArchive(2) \in files0
  /\ LibraryArchive(1) \in written

====
